---- MODULE Spec2Model ----
(***************************************************************************)
(* The appointments page (src/react-app/pages/Appointments.tsx) together   *)
(* with the appointment schema (src/shared/types.ts) and the persistence   *)
(* collaborator behind useAppStore.                                        *)
(*                                                                         *)
(* A session is one browser tab of the signed-in user: it holds the React  *)
(* state of the page, the react-hook-form state and the store's local copy *)
(* of the appointments.  All sessions write to the same appointments table *)
(* (db).  Every `await` of a handler is a point where other handlers and   *)
(* other sessions can run, so a handler that awaits a store call is two    *)
(* actions: the part up to the call, and the part after it settles.        *)
(*                                                                         *)
(* The financial page (Financial, same file) writes to the                 *)
(* financial_entries table directly; its signed-in user can change while   *)
(* the page is mounted.  deriveDefaults, which no file of src holds, is    *)
(* taken from the design of the scheduler.                                 *)
(***************************************************************************)
EXTENDS Integers, FiniteSets, Sequences, TLC

\* ---- bounds of the model ------------------------------------------------
MaxTime == 2          \* instants are the hours 0..MaxTime of a day
MaxId == 2            \* identifiers the table hands out before the model stops creating
MaxPrice == 25        \* form prices are 0..MaxPrice thousandths of the currency unit
MaxEntries == 1       \* ids the financial_entries table hands out
MaxCents == 199       \* stored amounts 0..MaxCents cents, besides the large ones
MaxHours == 2         \* entries of a business-hours list

\* browser sessions of the same user
Sessions == {"tab1", "tab2"}

\* ---- values -------------------------------------------------------------
User == "u1"

\* A date string is modelled by the instant it denotes, or InvalidDate for
\* a string Date.parse cannot read.
InvalidDate == -1
NaN == -2
DateStrings == (0..MaxTime) \cup {InvalidDate}

\* Date.parse / new Date(...)
DateParse(str) == IF str \in 0..MaxTime THEN str ELSE NaN

isNaN(x) == x = NaN

\* `a > b` on two Date objects: false as soon as one of them is invalid
DateGreater(a, b) == ~isNaN(a) /\ ~isNaN(b) /\ a > b

\* the owner's lists held by the store
clients == { [id |-> 1, name |-> "Ana"], [id |-> 2, name |-> "Bruno"] }
professionals == { [id |-> 1, name |-> "Bia"], [id |-> 2, name |-> "Caio"] }
\* a service carries its price in cents and its duration, here in instants
services == { [id |-> 1, name |-> "Corte", price |-> 5000, duration |-> 1] }

\* The price typed in the form, in thousandths of the currency unit
\* (1500 is 1.50), so that Math.round(price * 100) has something to round.
FormPrices == {0, 1500}

\* Math.round(Number(price) * 100) for a price given in thousandths
RoundCents(price) == (price + 5) \div 10

\* The values react-hook-form hands to the resolver.  They have the shape
\* the schema asks for, whatever fields the form registers: client_id 0 is
\* the empty option, client_id 3 and service_id 2 are ids that are in no list
\* of the owner.
FormValues ==
  [ client_id : {0, 1, 3}, professional_id : 1..2, service_id : 1..2,
    price : FormPrices, appointment_date : DateStrings, end_date : DateStrings,
    attended : {FALSE} ]

Null == [id |-> 0]
NoCall == [op |-> "none"]

NoToast == "none"
ClientNotFound == "Cliente nao encontrado."
Created == "Agendamento criado com sucesso!"

\* ---- the schema (src/shared/types.ts) -----------------------------------

\* dateRefinement with >= for >: an end equal to the start passes
dateRefinement_ge(data) ==
  /\ ~isNaN(DateParse(data.end_date)) /\ ~isNaN(DateParse(data.appointment_date))
  /\ DateParse(data.end_date) >= DateParse(data.appointment_date)

\* the refinement shared by AppointmentSchema and AppointmentFormSchema
dateRefinement(data) ==
  DateGreater(DateParse(data.end_date), DateParse(data.appointment_date))

\* field paths of the issues BaseAppointmentSchema raises (id, user_id,
\* client_name and service are omitted by the form schema)
BaseAppointmentSchema(data) ==
     (IF data.client_id >= 1 THEN {} ELSE {"client_id"})
  \cup (IF data.professional_id >= 1 THEN {} ELSE {"professional_id"})
  \cup (IF data.service_id >= 1 THEN {} ELSE {"service_id"})
  \cup (IF data.price > 0 THEN {} ELSE {"price"})
  \cup (IF ~isNaN(DateParse(data.appointment_date)) THEN {} ELSE {"appointment_date"})
  \cup (IF ~isNaN(DateParse(data.end_date)) THEN {} ELSE {"end_date"})

\* AppointmentFormSchema without its refinement
AppointmentFormSchema_unrefined(data) == BaseAppointmentSchema(data)

\* field paths of all issues of AppointmentFormSchema.safeParse(data);
\* empty iff the data is passed on to onSubmit
AppointmentFormSchema(data) ==
  BaseAppointmentSchema(data)
    \cup (IF dateRefinement(data) THEN {} ELSE {"end_date"})

\* ---- the persistence collaborator (useAppStore) -------------------------

\* insert that hands out the first id again and again
insert_firstId(table, record, id) == table \cup {[record EXCEPT !.id = 1]}

\* insert: the record with a newly assigned id
insert(table, record, id) == table \cup {[record EXCEPT !.id = id]}

Exists(table, id) == \E a \in table : a.id = id

\* update by id
update(table, record) ==
  {a \in table : a.id # record.id} \cup {record}

\* delete that empties the table
delete_all(table, id) == {}

\* delete by id
delete(table, id) == {a \in table : a.id # id}

Ids(list) == {x.id : x \in list}

\* ---- deriveDefaults -----------------------------------------------------

\* a field that has no value yet
Absent == -1

\* the services a candidate can name: the owner's, and one whose duration
\* is not known
catalogue ==
  services \cup { [id |-> 3, name |-> "Avulso", price |-> 2000, duration |-> Absent] }

\* the service record of an id, or Null when the id resolves to none
resolveService(id) ==
  IF \E sv \in catalogue : sv.id = id
    THEN CHOOSE sv \in catalogue : sv.id = id
    ELSE [id |-> 0]

\* the candidate of a form that was just opened
NewCandidate ==
  [ service_id |-> 0, start |-> 0, end |-> Absent, price |-> Absent,
    end_pinned |-> FALSE, price_overridden |-> FALSE ]

\* deriveDefaults that adds the duration to the end already there
deriveDefaults_accumulates(c, service) ==
  IF service = [id |-> 0] THEN c
  ELSE [c EXCEPT
          !.end = IF c.end_pinned \/ service.duration = Absent THEN @
                  ELSE (IF @ = Absent THEN c.start ELSE @) + service.duration,
          !.price = IF c.price_overridden THEN @ ELSE service.price]

\* deriveDefaults that clears end and price when there is no service
deriveDefaults_clears(c, service) ==
  IF service = [id |-> 0]
    THEN [c EXCEPT !.end = IF c.end_pinned THEN @ ELSE Absent,
                   !.price = IF c.price_overridden THEN @ ELSE Absent]
  ELSE [c EXCEPT
          !.end = IF c.end_pinned \/ service.duration = Absent THEN @
                  ELSE c.start + service.duration,
          !.price = IF c.price_overridden THEN @ ELSE service.price]

\* deriveDefaults(candidate, service): end = start + duration unless end is
\* pinned or the duration unknown, price = service.price unless overridden;
\* nothing when the service is absent
deriveDefaults(c, service) ==
  IF service = [id |-> 0] THEN c
  ELSE [c EXCEPT
          !.end = IF c.end_pinned \/ service.duration = Absent THEN @
                  ELSE c.start + service.duration,
          !.price = IF c.price_overridden THEN @ ELSE service.price]

\* ---- JavaScript numbers ---------------------------------------------------
\* An amount in cents is a natural number written in limbs of four decimal
\* digits, least significant first (<<>> is 0), so that amounts up to 2^53
\* and the 53-bit significands of doubles can be computed with exactly.

Limb == 10000

\* The operations on limbs are functions, so that an operand is a value
\* before it is operated on.
Limbs == Seq(0..(Limb - 1))

MulCarry[a \in Limbs, c \in Nat, carry \in Nat] ==
  IF a = <<>>
    THEN (IF carry = 0 THEN <<>>
          ELSE <<carry % Limb>> \o MulCarry[<<>>, c, carry \div Limb])
    ELSE <<(a[1] * c + carry) % Limb>>
           \o MulCarry[Tail(a), c, (a[1] * c + carry) \div Limb]

\* a * c for a small c > 0
MulSmall(a, c) == MulCarry[a, c, 0]

\* quotient and remainder of a by a small d
DivLimbs[a \in Limbs, d \in Nat] ==
  IF a = <<>> THEN [q |-> <<>>, r |-> 0]
  ELSE LET hi == DivLimbs[Tail(a), d]
           v == hi.r * Limb + a[1]
       IN [q |-> IF hi.q = <<>> /\ v \div d = 0 THEN <<>> ELSE <<v \div d>> \o hi.q,
           r |-> v % d]

DivSmall(a, d) == DivLimbs[a, d]

AddOne(a) == MulCarry[a, 1, 1]

\* a < b
Less(a, b) ==
  \/ Len(a) < Len(b)
  \/ /\ Len(a) = Len(b)
     /\ \E i \in 1..Len(a) :
          a[i] < b[i] /\ \A j \in (i + 1)..Len(a) : a[j] = b[j]

IsOdd(a) == a # <<>> /\ a[1] % 2 = 1

RECURSIVE FromNat(_)
FromNat(n) == IF n = 0 THEN <<>> ELSE <<n % Limb>> \o FromNat(n \div Limb)

\* floor(n / 2^k) and n * 2^k, fifteen bits at a time
RECURSIVE ShiftRight(_, _)
ShiftRight(n, k) ==
  IF k >= 15 THEN DivSmall(ShiftRight(n, k - 15), 32768).q
  ELSE DivSmall(n, 2^k).q

RECURSIVE ShiftLeft(_, _)
ShiftLeft(n, k) ==
  IF k >= 15 THEN MulSmall(ShiftLeft(n, k - 15), 32768)
  ELSE MulSmall(n, 2^k)

\* 2^51, 2^52 and 2^53 in limbs
TwoTo51 == ShiftLeft(<<1>>, 51)
TwoTo52 == ShiftLeft(<<1>>, 52)
TwoTo53 == ShiftLeft(<<1>>, 53)

\* n / d rounded to the nearest integer, ties to even: the rounding of every
\* operation on doubles
RoundHalfEven(n, d) ==
  LET dr == DivSmall(n, d) IN
  IF 2 * dr.r > d \/ (2 * dr.r = d /\ IsOdd(dr.q)) THEN AddOne(dr.q) ELSE dr.q

\* A double is [m, s], the number m / 2^s with m < 2^53 (s can be negative).

\* the least s that gives the quotient of n * 2^s by d its 53 bits
Scale(n, d) ==
  CHOOSE s \in 0..60 :
    /\ ~Less(DivSmall(ShiftLeft(n, s), d).q, TwoTo52)
    /\ s > 0 => Less(DivSmall(ShiftLeft(n, s - 1), d).q, TwoTo52)

\* n / d of two integers, n below 2^53: the double nearest to the quotient
Divide(n, d) ==
  IF n = <<>> THEN [m |-> <<>>, s |-> 0]
  ELSE LET s == Scale(n, d) IN [m |-> RoundHalfEven(ShiftLeft(n, s), d), s |-> s]

\* the bits a product has beyond 53
Excess(n) ==
  CHOOSE t \in 0..10 :
    /\ Less(ShiftRight(n, t), TwoTo53)
    /\ t > 0 => ~Less(ShiftRight(n, t - 1), TwoTo53)

\* x * c of a double and a small integer: the double nearest to the product
Multiply(x, c) ==
  IF x.m = <<>> THEN x
  ELSE LET product == MulSmall(x.m, c)
           t == Excess(product)
       IN [m |-> RoundHalfEven(product, 2^t), s |-> x.s - t]

\* Math.floor in place of Math.round
MathFloor(x) ==
  IF x.s <= 0 THEN ShiftLeft(x.m, 0 - x.s) ELSE ShiftRight(x.m, x.s)

\* Math.round(x): the integer nearest to x, a tie going up
MathRound(x) ==
  IF x.s <= 0 THEN ShiftLeft(x.m, 0 - x.s)
  ELSE DivSmall(AddOne(ShiftRight(x.m, x.s - 1)), 2).q

\* no value in the form field
NoValue == [m |-> <<>>, s |-> -1]

\* ---- state --------------------------------------------------------------
VARIABLES
  db,                   \* the appointments table
  nextId,               \* the next id the table assigns
  appointments,         \* per session: the store's local copy of the table
  isModalOpen,          \* per session: useState
  editingAppointment,   \* per session: useState, a record or Null
  isConfirmModalOpen,   \* per session: useState
  appointmentToDelete,  \* per session: useState, a record or Null
  isDeleting,           \* per session: useState
  pending,              \* per session: the save call awaited by onSubmit, or NoCall
  errors,               \* per session: the field errors its last step raised
  toast,                \* per session: the notification its last step raised
  issued,               \* per session: the store writes its last step issued
  candidate,            \* the candidate appointment whose defaults are derived
  user,                 \* Financial: the signed-in user of useSupabaseAuth
  financial_entries,    \* the financial_entries table, rows of every user
  nextEntryId,          \* the next id that table assigns
  entries,              \* Financial: useState
  loading,              \* Financial: useState
  fetching,             \* Financial: users whose fetchEntriesAndKPIs of the effect is in flight
  isEntryModalOpen,     \* Financial: useState isModalOpen
  editingEntry,         \* Financial: useState, a row or Null
  isEntryConfirmOpen,   \* Financial: useState isConfirmModalOpen
  entryToDelete,        \* Financial: useState, a row or Null
  isDeletingEntry,      \* Financial: useState isDeleting
  entrySave,            \* Financial: where onSubmit stands, or NoCall
  entryDelete,          \* Financial: where handleDeleteConfirm stands, or NoCall
  error,                \* Financial: useState, the inline message or NoToast
  entryToast,           \* Financial: the notification its last step raised
  storedAmount,         \* the amount of a stored record, in cents
  formAmount,           \* the amount the form holds for it, a double or NoValue
  businessHours         \* the business-hours list of the store

\* the state of the appointments page and of the store behind it
pageVars == <<db, nextId, appointments, isModalOpen, editingAppointment,
              isConfirmModalOpen, appointmentToDelete, isDeleting, pending,
              errors, toast, issued>>

\* the state of the financial page and of the table behind it
financialVars == <<user, financial_entries, nextEntryId, entries, loading,
                   fetching, isEntryModalOpen, editingEntry, isEntryConfirmOpen,
                   entryToDelete, isDeletingEntry, entrySave, entryDelete,
                   error, entryToast>>

\* the inputs of the computations that read no other state
inputVars == <<storedAmount, formAmount, businessHours>>

\* the state the appointments page does not touch
elsewhere == <<candidate, financialVars, inputVars>>

vars == <<pageVars, elsewhere>>

storeVars == <<db, nextId, appointments>>
deleteVars == <<isConfirmModalOpen, appointmentToDelete, isDeleting>>

\* the two pages as they are mounted
InitPages ==
  /\ db = {}
  /\ nextId = 1
  /\ appointments = [s \in Sessions |-> {}]
  /\ isModalOpen = [s \in Sessions |-> FALSE]
  /\ editingAppointment = [s \in Sessions |-> Null]
  /\ isConfirmModalOpen = [s \in Sessions |-> FALSE]
  /\ appointmentToDelete = [s \in Sessions |-> Null]
  /\ isDeleting = [s \in Sessions |-> FALSE]
  /\ errors = [s \in Sessions |-> {}]
  /\ pending = [s \in Sessions |-> NoCall]
  /\ toast = [s \in Sessions |-> NoToast]
  /\ issued = [s \in Sessions |-> 0]
  /\ candidate = NewCandidate
  /\ user = "u1"
  /\ financial_entries = {}
  /\ nextEntryId = 1
  /\ entries = {}
  /\ loading = TRUE
  /\ fetching = {"u1"}
  /\ isEntryModalOpen = FALSE
  /\ editingEntry = Null
  /\ isEntryConfirmOpen = FALSE
  /\ entryToDelete = Null
  /\ isDeletingEntry = FALSE
  /\ entrySave = NoCall
  /\ entryDelete = NoCall
  /\ error = NoToast
  /\ entryToast = NoToast

Init ==
  /\ InitPages
  /\ storedAmount = <<>>
  /\ formAmount = NoValue
  /\ businessHours = <<>>

\* what a step of session s shows and issues: the field errors errs, the
\* notification msg and n store writes
Emit(s, errs, msg, n) ==
  /\ errors' = [errors EXCEPT ![s] = errs]
  /\ toast' = [toast EXCEPT ![s] = msg]
  /\ issued' = [issued EXCEPT ![s] = n]

Quiet(s) == Emit(s, {}, NoToast, 0)

\* ---- onSubmit (Appointments.tsx 541-571) --------------------------------

\* clients.find((c) => c.id === Number(data.client_id))
findClient(id) == {c \in clients : c.id = id}

\* the appointmentData object of onSubmit
appointmentData(data, client) ==
  [ client_id |-> data.client_id,
    professional_id |-> data.professional_id,
    service_id |-> data.service_id,
    price |-> RoundCents(data.price),
    appointment_date |-> data.appointment_date,
    end_date |-> data.end_date,
    attended |-> data.attended,
    client_name |-> client.name ]

\* { ...base, ...ad }: every key of ad replaces the one of base
Spread(base, ad) ==
  [ id |-> base.id,
    user_id |-> base.user_id,
    client_id |-> ad.client_id,
    professional_id |-> ad.professional_id,
    service_id |-> ad.service_id,
    price |-> ad.price,
    appointment_date |-> ad.appointment_date,
    end_date |-> ad.end_date,
    attended |-> ad.attended,
    client_name |-> ad.client_name ]

\* saveCall whose update keeps the client_name of the appointment being edited
saveCall_keepsName(editing, data, client) ==
  IF editing # Null
    THEN [op |-> "update",
          rec |-> [Spread(editing, appointmentData(data, client))
                     EXCEPT !.client_name = editing.client_name]]
    ELSE [op |-> "add",
          rec |-> Spread([id |-> 0, user_id |-> User], appointmentData(data, client))]

\* the store call onSubmit issues for validated data and a resolved client
saveCall(editing, data, client) ==
  IF editing # Null
    THEN [op |-> "update", rec |-> Spread(editing, appointmentData(data, client))]
    ELSE [op |-> "add",
          rec |-> Spread([id |-> 0, user_id |-> User], appointmentData(data, client))]

\* onSubmit as written, named so that its variants can fall back on it
onSubmit_asWritten(s, data) ==
  IF findClient(data.client_id) = {}
    THEN [toast |-> ClientNotFound, calls |-> <<>>]
    ELSE [toast |-> NoToast,
          calls |-> << saveCall(editingAppointment[s], data,
                                CHOOSE c \in findClient(data.client_id) : TRUE) >>]

\* the rejection of a conflict check
Conflict == [toast |-> "Conflito de horario.", calls |-> <<>>]

\* onSubmit with a conflict check that compares closed intervals: an
\* appointment that only touches the candidate counts as overlapping
onSubmit_closedIntervals(s, data) ==
  IF \E b \in appointments[s] :
       /\ b.id # editingAppointment[s].id
       /\ b.professional_id = data.professional_id
       /\ DateParse(data.appointment_date) <= DateParse(b.end_date)
       /\ DateParse(b.appointment_date) <= DateParse(data.end_date)
    THEN Conflict
    ELSE onSubmit_asWritten(s, data)

\* onSubmit with a conflict check that forgets to compare professional_id
onSubmit_anyProfessional(s, data) ==
  IF \E b \in appointments[s] :
       /\ b.id # editingAppointment[s].id
       /\ DateParse(data.appointment_date) < DateParse(b.end_date)
       /\ DateParse(b.appointment_date) < DateParse(data.end_date)
    THEN Conflict
    ELSE onSubmit_asWritten(s, data)

\* onSubmit with a conflict check against the table itself instead of the
\* session's copy
onSubmit_checksTable(s, data) ==
  IF \E b \in db :
       /\ b.id # editingAppointment[s].id
       /\ b.professional_id = data.professional_id
       /\ DateParse(data.appointment_date) < DateParse(b.end_date)
       /\ DateParse(b.appointment_date) < DateParse(data.end_date)
    THEN Conflict
    ELSE onSubmit_asWritten(s, data)

\* onSubmit with the store call moved above the client lookup
onSubmit_writeFirst(s, data) ==
  [toast |-> IF findClient(data.client_id) = {} THEN ClientNotFound ELSE NoToast,
   calls |-> << saveCall(editingAppointment[s], data,
                         IF findClient(data.client_id) = {}
                           THEN [id |-> data.client_id, name |-> ""]
                           ELSE CHOOSE c \in findClient(data.client_id) : TRUE) >>]

\* onSubmit returning on a missing client without showError
onSubmit_silent(s, data) ==
  IF findClient(data.client_id) = {}
    THEN [toast |-> NoToast, calls |-> <<>>]
    ELSE [toast |-> NoToast,
          calls |-> << saveCall(editingAppointment[s], data,
                                CHOOSE c \in findClient(data.client_id) : TRUE) >>]

\* onSubmit up to its await, for a signed-in user: the notification it
\* raises and the store calls it issues, in order
onSubmit(s, data) ==
  IF findClient(data.client_id) = {}
    THEN [toast |-> ClientNotFound, calls |-> <<>>]
    ELSE [toast |-> NoToast,
          calls |-> << saveCall(editingAppointment[s], data,
                                CHOOSE c \in findClient(data.client_id) : TRUE) >>]

\* handleSubmit(onSubmit) up to the await of onSubmit: the resolver's field
\* errors, and onSubmit's outcome when there are none
submit(s, data) ==
  LET errs == AppointmentFormSchema(data) IN
  IF errs # {}
    THEN [errors |-> errs, toast |-> NoToast, calls |-> <<>>]
    ELSE LET out == onSubmit(s, data) IN
         [errors |-> {}, toast |-> out.toast, calls |-> out.calls]

\* ids the table can still hand out, counting the inserts in flight
IdsLeft ==
  nextId + Cardinality({t \in Sessions : pending[t].op = "add"}) <= MaxId

\* handleCloseModal without setEditingAppointment(null)
closeModal_keepsEditing(s) ==
  /\ isModalOpen' = [isModalOpen EXCEPT ![s] = FALSE]
  /\ editingAppointment' = editingAppointment

\* handleCloseModal
closeModal(s) ==
  /\ isModalOpen' = [isModalOpen EXCEPT ![s] = FALSE]
  /\ editingAppointment' = [editingAppointment EXCEPT ![s] = Null]

\* the form is on top: it is rendered and the confirmation dialog is not over it
FormOnTop(s) == isModalOpen[s] /\ ~isConfirmModalOpen[s]

\* the calendar and the page header are not covered by a dialog
PageOnTop(s) == ~isModalOpen[s] /\ ~isConfirmModalOpen[s]

\* handleSubmit that puts the candidate into the local list before the
\* store has answered
handleSubmit_optimistic(s, data) ==
  /\ FormOnTop(s)
  /\ pending[s] = NoCall
  /\ editingAppointment[s] # Null \/ IdsLeft
  /\ LET out == submit(s, data) IN
       /\ pending' = [pending EXCEPT ![s] =
                        IF out.calls = <<>> THEN NoCall ELSE out.calls[1]]
       /\ appointments' = [appointments EXCEPT ![s] =
                             IF out.calls = <<>> THEN @ ELSE @ \cup {out.calls[1].rec}]
       /\ Emit(s, out.errors, out.toast, Len(out.calls))
  /\ UNCHANGED <<db, nextId, isModalOpen, editingAppointment, deleteVars>>
  /\ UNCHANGED elsewhere

\* the form is submitted with the values `data`; the submit button is
\* disabled while isSubmitting
handleSubmit(s, data) ==
  /\ FormOnTop(s)
  /\ pending[s] = NoCall
  /\ editingAppointment[s] # Null \/ IdsLeft
  /\ LET out == submit(s, data) IN
       /\ pending' = [pending EXCEPT ![s] =
                        IF out.calls = <<>> THEN NoCall ELSE out.calls[1]]
       /\ Emit(s, out.errors, out.toast, Len(out.calls))
  /\ UNCHANGED <<storeVars, isModalOpen, editingAppointment, deleteVars>>
  /\ UNCHANGED elsewhere

\* the local copy after the store has updated a record
localUpdate(local, record) ==
  {IF a.id = record.id THEN record ELSE a : a \in local}

\* the awaited save call succeeds
saveResolved(s) ==
  /\ pending[s] # NoCall
  /\ \/ /\ pending[s].op = "add"
        /\ db' = insert(db, pending[s].rec, nextId)
        /\ nextId' = nextId + 1
        /\ appointments' =
             [appointments EXCEPT ![s] = insert(@, pending[s].rec, nextId)]
        /\ Emit(s, {}, Created, 0)
     \/ /\ pending[s].op = "update"
        /\ Exists(db, pending[s].rec.id)
        /\ db' = update(db, pending[s].rec)
        /\ nextId' = nextId
        /\ appointments' =
             [appointments EXCEPT ![s] = localUpdate(@, pending[s].rec)]
        /\ Emit(s, {}, "Agendamento atualizado!", 0)
  /\ pending' = [pending EXCEPT ![s] = NoCall]
  /\ closeModal(s)
  /\ UNCHANGED deleteVars
  /\ UNCHANGED elsewhere

\* the awaited save call throws
saveRejected(s) ==
  /\ pending[s] # NoCall
  /\ pending' = [pending EXCEPT ![s] = NoCall]
  /\ Emit(s, {}, "Nao foi possivel salvar", 0)
  /\ UNCHANGED <<storeVars, isModalOpen, editingAppointment, deleteVars>>
  /\ UNCHANGED elsewhere

\* ---- opening and closing the form ---------------------------------------

\* the "Novo Agendamento" button
novoAgendamento(s) ==
  /\ PageOnTop(s)
  /\ editingAppointment' = [editingAppointment EXCEPT ![s] = Null]
  /\ isModalOpen' = [isModalOpen EXCEPT ![s] = TRUE]
  /\ Quiet(s)
  /\ UNCHANGED <<storeVars, pending, deleteVars>>
  /\ UNCHANGED elsewhere

handleSelectSlot(s) ==
  /\ PageOnTop(s)
  /\ editingAppointment' = [editingAppointment EXCEPT ![s] = Null]
  /\ isModalOpen' = [isModalOpen EXCEPT ![s] = TRUE]
  /\ Quiet(s)
  /\ UNCHANGED <<storeVars, pending, deleteVars>>
  /\ UNCHANGED elsewhere

handleSelectEvent(s, resource) ==
  /\ PageOnTop(s)
  /\ resource \in appointments[s]
  /\ editingAppointment' = [editingAppointment EXCEPT ![s] = resource]
  /\ isModalOpen' = [isModalOpen EXCEPT ![s] = TRUE]
  /\ Quiet(s)
  /\ UNCHANGED <<storeVars, pending, deleteVars>>
  /\ UNCHANGED elsewhere

handleCloseModal(s) ==
  /\ FormOnTop(s)
  /\ closeModal(s)
  /\ Quiet(s)
  /\ UNCHANGED <<storeVars, pending, deleteVars>>
  /\ UNCHANGED elsewhere

\* ---- deleting -----------------------------------------------------------

\* the "Excluir" button of the edit form
handleDeleteClick(s) ==
  /\ FormOnTop(s)
  /\ editingAppointment[s] # Null
  /\ appointmentToDelete' = [appointmentToDelete EXCEPT ![s] = editingAppointment[s]]
  /\ isConfirmModalOpen' = [isConfirmModalOpen EXCEPT ![s] = TRUE]
  /\ Quiet(s)
  /\ UNCHANGED <<storeVars, isModalOpen, editingAppointment, pending, isDeleting>>
  /\ UNCHANGED elsewhere

\* the confirm button of the dialog, disabled while isDeleting
handleDeleteConfirm(s) ==
  /\ isConfirmModalOpen[s]
  /\ ~isDeleting[s]
  /\ appointmentToDelete[s] # Null
  /\ isDeleting' = [isDeleting EXCEPT ![s] = TRUE]
  /\ Emit(s, {}, NoToast, 1)
  /\ UNCHANGED <<storeVars, isModalOpen, editingAppointment, pending,
                 isConfirmModalOpen, appointmentToDelete>>
  /\ UNCHANGED elsewhere

\* the awaited deleteAppointment(appointmentToDelete.id) succeeds
deleteResolved(s) ==
  /\ isDeleting[s]
  /\ Exists(db, appointmentToDelete[s].id)
  /\ db' = delete(db, appointmentToDelete[s].id)
  /\ appointments' = [appointments EXCEPT ![s] = delete(@, appointmentToDelete[s].id)]
  /\ isConfirmModalOpen' = [isConfirmModalOpen EXCEPT ![s] = FALSE]
  /\ appointmentToDelete' = [appointmentToDelete EXCEPT ![s] = Null]
  /\ isDeleting' = [isDeleting EXCEPT ![s] = FALSE]
  /\ Emit(s, {}, "Agendamento removido!", 0)
  /\ UNCHANGED <<nextId, isModalOpen, editingAppointment, pending>>
  /\ UNCHANGED elsewhere

\* the awaited deleteAppointment throws
deleteRejected(s) ==
  /\ isDeleting[s]
  /\ isDeleting' = [isDeleting EXCEPT ![s] = FALSE]
  /\ Emit(s, {}, "Falha ao remover agendamento.", 0)
  /\ UNCHANGED <<storeVars, isModalOpen, editingAppointment, pending,
                 isConfirmModalOpen, appointmentToDelete>>
  /\ UNCHANGED elsewhere

\* handleDeleteCancel without setAppointmentToDelete(null)
handleDeleteCancel_closesOnly(s) ==
  /\ isConfirmModalOpen[s]
  /\ ~isDeleting[s]
  /\ isConfirmModalOpen' = [isConfirmModalOpen EXCEPT ![s] = FALSE]
  /\ Quiet(s)
  /\ UNCHANGED <<storeVars, isModalOpen, editingAppointment, pending,
                 appointmentToDelete, isDeleting>>
  /\ UNCHANGED elsewhere

\* the cancel button of the dialog, disabled while isDeleting
handleDeleteCancel(s) ==
  /\ isConfirmModalOpen[s]
  /\ ~isDeleting[s]
  /\ isConfirmModalOpen' = [isConfirmModalOpen EXCEPT ![s] = FALSE]
  /\ appointmentToDelete' = [appointmentToDelete EXCEPT ![s] = Null]
  /\ Quiet(s)
  /\ UNCHANGED <<storeVars, isModalOpen, editingAppointment, pending, isDeleting>>
  /\ UNCHANGED elsewhere

\* ---- loading ------------------------------------------------------------

\* fetchAppointments(user.id) of the loading effect
fetchAppointments(s) ==
  /\ appointments[s] # db
  /\ appointments' = [appointments EXCEPT ![s] = db]
  /\ Quiet(s)
  /\ UNCHANGED <<db, nextId, isModalOpen, editingAppointment, pending, deleteVars>>
  /\ UNCHANGED elsewhere

\* ---- the candidate of the form -------------------------------------------

\* the service of the candidate changes: the derivation runs again
setService(id) ==
  /\ candidate.service_id # id
  /\ candidate' = deriveDefaults([candidate EXCEPT !.service_id = id],
                                 resolveService(id))
  /\ UNCHANGED <<pageVars, financialVars, inputVars>>

\* the start of the candidate changes: the derivation runs again
setStart(t) ==
  /\ candidate.start # t
  /\ candidate' = deriveDefaults([candidate EXCEPT !.start = t],
                                 resolveService(candidate.service_id))
  /\ UNCHANGED <<pageVars, financialVars, inputVars>>

\* the caller pins the end
pinEnd(t) ==
  /\ candidate' = [candidate EXCEPT !.end = t, !.end_pinned = TRUE]
  /\ candidate' # candidate
  /\ UNCHANGED <<pageVars, financialVars, inputVars>>

\* the caller overrides the price
overridePrice(p) ==
  /\ candidate' = [candidate EXCEPT !.price = p, !.price_overridden = TRUE]
  /\ candidate' # candidate
  /\ UNCHANGED <<pageVars, financialVars, inputVars>>

\* ---- the financial page (Financial, Appointments.tsx 846-1016) ------------

Users == {"u1", "u2"}

\* the amounts typed in the form, in currency units
FinancialFormValues == [amount : 0..2]

\* field paths of the issues CreateFinancialEntrySchema raises
CreateFinancialEntrySchema(formData) ==
  IF formData.amount > 0 THEN {} ELSE {"amount"}

\* entryData of onSubmit: the form data with the amount in cents
entryData(formData) == [amount |-> formData.amount * 100]

\* .select('*').eq('user_id', user.id)
selectEntries(table, owner) == {r \in table : r.user_id = owner}

\* The rows a filter .eq('id', id) selects for a write.  The call carries
\* no user_id; whether the backend also restricts the rows to those of the
\* signed-in user (scoped) is not decided by the page.
eqId(table, id, owner, scoped) ==
  {r \in table : r.id = id /\ (scoped => r.user_id = owner)}

\* .insert([{ ...entryData, user_id: user.id }])
insertEntry(table, data, owner, id) ==
  table \cup {[id |-> id, user_id |-> owner, amount |-> data.amount]}

\* .update(entryData).eq('id', id)
updateEntry(table, data, id, owner, scoped) ==
  { IF r \in eqId(table, id, owner, scoped)
      THEN [r EXCEPT !.amount = data.amount] ELSE r : r \in table }

\* .delete().eq('id', id)
deleteEntry(table, id, owner, scoped) == table \ eqId(table, id, owner, scoped)

\* the notification of the step, NoToast when it raises none
Notify(msg) == entryToast' = msg

FinancialOnTop == ~loading /\ ~isEntryModalOpen /\ ~isEntryConfirmOpen
EntryFormOnTop == ~loading /\ isEntryModalOpen /\ ~isEntryConfirmOpen

\* useSupabaseAuth hands the page another user; the effect on [user] starts
\* fetchEntriesAndKPIs
authChange(u) ==
  /\ u # user
  /\ user' = u
  /\ loading' = TRUE
  /\ error' = NoToast
  /\ fetching' = fetching \cup {u}
  /\ Notify(NoToast)
  /\ UNCHANGED <<financial_entries, nextEntryId, entries, isEntryModalOpen,
                 editingEntry, isEntryConfirmOpen, entryToDelete,
                 isDeletingEntry, entrySave, entryDelete>>
  /\ UNCHANGED <<pageVars, candidate, inputVars>>

\* a fetchEntriesAndKPIs started by the effect settles, ok or not
fetchEntriesAndKPIs(u, ok) ==
  /\ u \in fetching
  /\ fetching' = fetching \ {u}
  /\ entries' = IF ok THEN selectEntries(financial_entries, u) ELSE entries
  /\ error' = IF ok THEN error ELSE "Falha ao carregar dados financeiros."
  /\ loading' = FALSE
  /\ Notify(NoToast)
  /\ UNCHANGED <<user, financial_entries, nextEntryId, isEntryModalOpen,
                 editingEntry, isEntryConfirmOpen, entryToDelete,
                 isDeletingEntry, entrySave, entryDelete>>
  /\ UNCHANGED <<pageVars, candidate, inputVars>>

\* the "Nova Entrada" button
novaEntrada ==
  /\ FinancialOnTop
  /\ isEntryModalOpen' = TRUE
  /\ Notify(NoToast)
  /\ UNCHANGED <<user, financial_entries, nextEntryId, entries, loading,
                 fetching, editingEntry, isEntryConfirmOpen, entryToDelete,
                 isDeletingEntry, entrySave, entryDelete, error>>
  /\ UNCHANGED <<pageVars, candidate, inputVars>>

handleEditEntry(entry) ==
  /\ FinancialOnTop
  /\ entry \in entries
  /\ editingEntry' = entry
  /\ isEntryModalOpen' = TRUE
  /\ Notify(NoToast)
  /\ UNCHANGED <<user, financial_entries, nextEntryId, entries, loading,
                 fetching, isEntryConfirmOpen, entryToDelete,
                 isDeletingEntry, entrySave, entryDelete, error>>
  /\ UNCHANGED <<pageVars, candidate, inputVars>>

\* Financial.handleCloseModal
closeEntryModal ==
  /\ isEntryModalOpen' = FALSE
  /\ editingEntry' = Null
  /\ error' = NoToast

Financial_handleCloseModal ==
  /\ EntryFormOnTop
  /\ closeEntryModal
  /\ Notify(NoToast)
  /\ UNCHANGED <<user, financial_entries, nextEntryId, entries, loading,
                 fetching, isEntryConfirmOpen, entryToDelete,
                 isDeletingEntry, entrySave, entryDelete>>
  /\ UNCHANGED <<pageVars, candidate, inputVars>>

\* Financial.onSubmit up to its first await: the write it issues
Financial_onSubmit(formData) ==
  IF editingEntry # Null
    THEN [op |-> "update", id |-> editingEntry.id, data |-> entryData(formData),
          user_id |-> user, stage |-> "write"]
    ELSE [op |-> "insert", id |-> 0, data |-> entryData(formData),
          user_id |-> user, stage |-> "write"]

\* handleSubmit(onSubmit) of the entry form; the submit button is disabled
\* while isSubmitting
Financial_handleSubmit(formData) ==
  /\ EntryFormOnTop
  /\ entrySave = NoCall
  /\ editingEntry # Null \/ nextEntryId <= MaxEntries
  /\ IF CreateFinancialEntrySchema(formData) # {}
       THEN UNCHANGED <<entrySave, error>>
       ELSE /\ entrySave' = Financial_onSubmit(formData)
            /\ error' = NoToast
  /\ Notify(NoToast)
  /\ UNCHANGED <<user, financial_entries, nextEntryId, entries, loading,
                 fetching, isEntryModalOpen, editingEntry, isEntryConfirmOpen,
                 entryToDelete, isDeletingEntry, entryDelete>>
  /\ UNCHANGED <<pageVars, candidate, inputVars>>

\* what is left of onSubmit once the awaited write has resolved: the success
\* notification and the start of fetchEntriesAndKPIs
writeResolved ==
  /\ Notify(IF entrySave.op = "update"
              THEN "Entrada atualizada!" ELSE "Entrada adicionada!")
  /\ entrySave' = [entrySave EXCEPT !.stage = "refetch"]
  /\ loading' = TRUE
  /\ error' = NoToast
  /\ UNCHANGED <<user, entries, fetching, isEntryModalOpen, editingEntry,
                 isEntryConfirmOpen, entryToDelete, isDeletingEntry, entryDelete>>
  /\ UNCHANGED <<pageVars, candidate, inputVars>>

\* the awaited insert or update is applied by the backend
entryWriteApplied(scoped) ==
  /\ entrySave # NoCall /\ entrySave.stage = "write"
  /\ IF entrySave.op = "insert"
       THEN /\ financial_entries' =
                 insertEntry(financial_entries, entrySave.data,
                             entrySave.user_id, nextEntryId)
            /\ nextEntryId' = nextEntryId + 1
       ELSE /\ financial_entries' =
                 updateEntry(financial_entries, entrySave.data, entrySave.id,
                             entrySave.user_id, scoped)
            /\ nextEntryId' = nextEntryId
  /\ writeResolved

\* the awaited insert or update fails and the client resolves with
\* { error }: nothing is thrown, onSubmit goes on
entryWriteFailed ==
  /\ entrySave # NoCall /\ entrySave.stage = "write"
  /\ UNCHANGED <<financial_entries, nextEntryId>>
  /\ writeResolved

\* the awaited insert or update throws: the catch block of onSubmit
entryWriteThrew ==
  /\ entrySave # NoCall /\ entrySave.stage = "write"
  /\ entrySave' = NoCall
  /\ error' = "Erro ao salvar a entrada financeira."
  /\ Notify("Erro ao salvar.")
  /\ UNCHANGED <<user, financial_entries, nextEntryId, entries, loading,
                 fetching, isEntryModalOpen, editingEntry, isEntryConfirmOpen,
                 entryToDelete, isDeletingEntry, entryDelete>>
  /\ UNCHANGED <<pageVars, candidate, inputVars>>

\* the fetchEntriesAndKPIs awaited by onSubmit settles, then handleCloseModal
entrySaveRefetched(ok) ==
  /\ entrySave # NoCall /\ entrySave.stage = "refetch"
  /\ entries' = IF ok THEN selectEntries(financial_entries, entrySave.user_id)
                ELSE entries
  /\ loading' = FALSE
  /\ closeEntryModal
  /\ entrySave' = NoCall
  /\ Notify(NoToast)
  /\ UNCHANGED <<user, financial_entries, nextEntryId, fetching,
                 isEntryConfirmOpen, entryToDelete, isDeletingEntry, entryDelete>>
  /\ UNCHANGED <<pageVars, candidate, inputVars>>

Financial_handleDeleteClick(entry) ==
  /\ FinancialOnTop
  /\ entry \in entries
  /\ entryToDelete' = entry
  /\ isEntryConfirmOpen' = TRUE
  /\ Notify(NoToast)
  /\ UNCHANGED <<user, financial_entries, nextEntryId, entries, loading,
                 fetching, isEntryModalOpen, editingEntry, isDeletingEntry,
                 entrySave, entryDelete, error>>
  /\ UNCHANGED <<pageVars, candidate, inputVars>>

\* the confirm button, disabled while isDeleting
Financial_handleDeleteConfirm ==
  /\ ~loading /\ isEntryConfirmOpen /\ ~isDeletingEntry
  /\ entryToDelete # Null
  /\ isDeletingEntry' = TRUE
  /\ entryDelete' = [op |-> "delete", id |-> entryToDelete.id,
                     user_id |-> user, stage |-> "write"]
  /\ Notify(NoToast)
  /\ UNCHANGED <<user, financial_entries, nextEntryId, entries, loading,
                 fetching, isEntryModalOpen, editingEntry, isEntryConfirmOpen,
                 entryToDelete, entrySave, error>>
  /\ UNCHANGED <<pageVars, candidate, inputVars>>

\* what is left of handleDeleteConfirm once the awaited delete has resolved
deleteEntryResolved ==
  /\ Notify("Entrada removida!")
  /\ isEntryConfirmOpen' = FALSE
  /\ entryToDelete' = Null
  /\ entryDelete' = [entryDelete EXCEPT !.stage = "refetch"]
  /\ loading' = TRUE
  /\ error' = NoToast
  /\ UNCHANGED <<user, nextEntryId, entries, fetching, isEntryModalOpen,
                 editingEntry, isDeletingEntry, entrySave>>
  /\ UNCHANGED <<pageVars, candidate, inputVars>>

\* the awaited delete is applied by the backend
entryDeleteApplied(scoped) ==
  /\ entryDelete # NoCall /\ entryDelete.stage = "write"
  /\ financial_entries' =
       deleteEntry(financial_entries, entryDelete.id, entryDelete.user_id, scoped)
  /\ deleteEntryResolved

\* the awaited delete fails and the client resolves with { error }
entryDeleteFailed ==
  /\ entryDelete # NoCall /\ entryDelete.stage = "write"
  /\ UNCHANGED financial_entries
  /\ deleteEntryResolved

\* the awaited delete throws: catch and finally of handleDeleteConfirm
entryDeleteThrew ==
  /\ entryDelete # NoCall /\ entryDelete.stage = "write"
  /\ entryDelete' = NoCall
  /\ isDeletingEntry' = FALSE
  /\ Notify("Erro ao remover entrada.")
  /\ UNCHANGED <<user, financial_entries, nextEntryId, entries, loading,
                 fetching, isEntryModalOpen, editingEntry, isEntryConfirmOpen,
                 entryToDelete, entrySave, error>>
  /\ UNCHANGED <<pageVars, candidate, inputVars>>

\* the fetchEntriesAndKPIs awaited by handleDeleteConfirm settles, then finally
entryDeleteRefetched(ok) ==
  /\ entryDelete # NoCall /\ entryDelete.stage = "refetch"
  /\ entries' = IF ok THEN selectEntries(financial_entries, entryDelete.user_id)
                ELSE entries
  /\ error' = IF ok THEN error ELSE "Falha ao carregar dados financeiros."
  /\ loading' = FALSE
  /\ isDeletingEntry' = FALSE
  /\ entryDelete' = NoCall
  /\ Notify(NoToast)
  /\ UNCHANGED <<user, financial_entries, nextEntryId, fetching,
                 isEntryModalOpen, editingEntry, isEntryConfirmOpen,
                 entryToDelete, entrySave>>
  /\ UNCHANGED <<pageVars, candidate, inputVars>>

\* the cancel button, disabled while isDeleting
Financial_handleDeleteCancel ==
  /\ ~loading /\ isEntryConfirmOpen /\ ~isDeletingEntry
  /\ isEntryConfirmOpen' = FALSE
  /\ entryToDelete' = Null
  /\ Notify(NoToast)
  /\ UNCHANGED <<user, financial_entries, nextEntryId, entries, loading,
                 fetching, isEntryModalOpen, editingEntry, isDeletingEntry,
                 entrySave, entryDelete, error>>
  /\ UNCHANGED <<pageVars, candidate, inputVars>>

\* ---- the money value of a record that is opened and saved ------------------

\* what the financial page keeps while an amount is loaded and saved
amountFrame ==
  UNCHANGED <<user, financial_entries, nextEntryId, entries, loading, fetching,
              isEntryModalOpen, editingEntry, isEntryConfirmOpen, entryToDelete,
              isDeletingEntry, entrySave, entryDelete, error>>

\* reset({ ..., amount: entry.amount / 100 }) of handleEditEntry, and
\* price: event.resource.price / 100 of handleSelectEvent
resetAmount ==
  /\ formAmount = NoValue
  /\ formAmount' = Divide(storedAmount, 100)
  /\ Notify(NoToast)
  /\ amountFrame
  /\ UNCHANGED <<pageVars, candidate, storedAmount, businessHours>>

\* the form is submitted as it was loaded: Math.round(formData.amount * 100),
\* respectively Math.round(Number(data.price) * 100), is stored by the update
\* and the form is reset
saveAmount ==
  /\ formAmount # NoValue
  /\ storedAmount' = MathRound(Multiply(formAmount, 100))
  /\ formAmount' = NoValue
  /\ Notify("Entrada atualizada!")
  /\ amountFrame
  /\ UNCHANGED <<pageVars, candidate, businessHours>>

\* ---- the calendar --------------------------------------------------------

\* calendarEvents: the event the calendar shows for each appointment of the
\* list; its end is moment(start).add(1, 'hours')
calendarEvents(list) ==
  { [ id |-> a.id,
      start |-> DateParse(a.appointment_date),
      end |-> DateParse(a.appointment_date) + 1,
      resource |-> a ] : a \in list }

\* A clock time is the string 'HH:MM' of hours and minutes, written <<h, m>>;
\* null is <<>>, which like the empty string is falsy.
NoTime == <<>>

\* a < b of two 'HH:MM' strings: the comparison of strings, character by
\* character
Earlier(a, b) == a[1] < b[1] \/ (a[1] = b[1] /\ a[2] < b[2])

\* moment.duration('HH:MM'), in minutes
duration(t) == t[1] * 60 + t[2]

\* businessHours.forEach: the least start_time below min, null ones skipped
RECURSIVE earliestStart(_, _)
earliestStart(hours, min) ==
  IF hours = <<>> THEN min
  ELSE earliestStart(Tail(hours),
         IF Head(hours).start_time # NoTime /\ Earlier(Head(hours).start_time, min)
           THEN Head(hours).start_time ELSE min)

\* businessHours.forEach: the greatest end_time above max, null ones skipped
RECURSIVE latestEnd(_, _)
latestEnd(hours, max) ==
  IF hours = <<>> THEN max
  ELSE latestEnd(Tail(hours),
         IF Head(hours).end_time # NoTime /\ Earlier(max, Head(hours).end_time)
           THEN Head(hours).end_time ELSE max)

\* minTime and maxTime of the useMemo, in minutes after the start of the day
minTime ==
  IF businessHours = <<>> THEN 8 * 60
  ELSE duration(earliestStart(businessHours, <<23, 59>>))

maxTime ==
  IF businessHours = <<>> THEN 20 * 60
  ELSE duration(latestEnd(businessHours, <<0, 0>>))

\* fetchBusinessHours(user.id) of the useEffect: the store holds the list
fetchBusinessHours(list) ==
  /\ businessHours' = list
  /\ UNCHANGED <<pageVars, candidate, financialVars, storedAmount, formAmount>>

\* ---- specifications -----------------------------------------------------

Step(s) ==
  \/ \E data \in FormValues : handleSubmit(s, data)
  \/ saveResolved(s)
  \/ saveRejected(s)
  \/ novoAgendamento(s)
  \/ handleSelectSlot(s)
  \/ \E resource \in appointments[s] : handleSelectEvent(s, resource)
  \/ handleCloseModal(s)
  \/ handleDeleteClick(s)
  \/ handleDeleteConfirm(s)
  \/ deleteResolved(s)
  \/ deleteRejected(s)
  \/ handleDeleteCancel(s)

\* one session: every validate-then-write runs to completion before the next
Next == Step("tab1")

Spec == Init /\ [][Next]_vars

\* the values two sessions submit when they race to create appointments:
\* well-formed values of the resolvable client and service
ConcurrentValues ==
  {d \in FormValues :
     /\ d.client_id = 1 /\ d.service_id = 1 /\ d.price > 0
     /\ AppointmentFormSchema(d) = {}}

ConcurrentStep(s) ==
  \/ novoAgendamento(s)
  \/ \E data \in ConcurrentValues : handleSubmit(s, data)
  \/ saveResolved(s)
  \/ saveRejected(s)
  \/ handleCloseModal(s)
  \/ fetchAppointments(s)

\* two sessions of the same user creating appointments side by side
NextConcurrent == \E s \in Sessions : ConcurrentStep(s)

SpecConcurrent == Init /\ [][NextConcurrent]_vars

\* the values a session submits when only the price typed varies, from 0.000
\* upwards in thousandths
PriceValues ==
  { [ client_id |-> 1, professional_id |-> 1, service_id |-> 1, price |-> p,
      appointment_date |-> 0, end_date |-> 1, attended |-> FALSE ] :
    p \in 0..MaxPrice }

PriceStep(s) ==
  \/ novoAgendamento(s)
  \/ \E resource \in appointments[s] : handleSelectEvent(s, resource)
  \/ \E data \in PriceValues : handleSubmit(s, data)
  \/ saveResolved(s)
  \/ saveRejected(s)
  \/ handleCloseModal(s)

NextPrice == PriceStep("tab1")

\* one session creating and editing appointments of every small price
SpecPrice == Init /\ [][NextPrice]_vars

\* the values a session submits when the client chosen varies: each client of
\* the owner and an id that is in no list
ClientValues ==
  { [ client_id |-> c, professional_id |-> 1, service_id |-> 1, price |-> 1500,
      appointment_date |-> 0, end_date |-> e, attended |-> FALSE ] :
    c \in 1..3, e \in 1..MaxTime }

ClientStep(s) ==
  \/ novoAgendamento(s)
  \/ \E resource \in appointments[s] : handleSelectEvent(s, resource)
  \/ \E data \in ClientValues : handleSubmit(s, data)
  \/ saveResolved(s)
  \/ saveRejected(s)
  \/ handleCloseModal(s)

NextClient == ClientStep("tab1")

\* one session creating appointments and moving them between clients
SpecClient == Init /\ [][NextClient]_vars

NextFinancial ==
  \/ \E u \in Users : authChange(u)
  \/ \E u \in Users : \E ok \in BOOLEAN : fetchEntriesAndKPIs(u, ok)
  \/ novaEntrada
  \/ \E entry \in entries : handleEditEntry(entry)
  \/ Financial_handleCloseModal
  \/ \E formData \in FinancialFormValues : Financial_handleSubmit(formData)
  \/ \E scoped \in BOOLEAN : entryWriteApplied(scoped)
  \/ entryWriteFailed
  \/ entryWriteThrew
  \/ \E ok \in BOOLEAN : entrySaveRefetched(ok)
  \/ \E entry \in entries : Financial_handleDeleteClick(entry)
  \/ Financial_handleDeleteConfirm
  \/ \E scoped \in BOOLEAN : entryDeleteApplied(scoped)
  \/ entryDeleteFailed
  \/ entryDeleteThrew
  \/ \E ok \in BOOLEAN : entryDeleteRefetched(ok)
  \/ Financial_handleDeleteCancel

\* the financial page of one browser tab, whose signed-in user can change
SpecFinancial == Init /\ [][NextFinancial]_vars

\* the one appointment, and the one entry, a session creates in order to
\* delete it
DeleteValues ==
  { [ client_id |-> 1, professional_id |-> 1, service_id |-> 1, price |-> 1500,
      appointment_date |-> 0, end_date |-> 1, attended |-> FALSE ] }

DeleteEntryValues == { [amount |-> 1] }

DeleteStep(s) ==
  \/ novoAgendamento(s)
  \/ \E data \in DeleteValues : handleSubmit(s, data)
  \/ saveResolved(s)
  \/ \E resource \in appointments[s] : handleSelectEvent(s, resource)
  \/ handleCloseModal(s)
  \/ handleDeleteClick(s)
  \/ handleDeleteConfirm(s)
  \/ deleteResolved(s)
  \/ deleteRejected(s)
  \/ handleDeleteCancel(s)

NextDelete ==
  \/ DeleteStep("tab1")
  \/ \E u \in Users : \E ok \in BOOLEAN : fetchEntriesAndKPIs(u, ok)
  \/ novaEntrada
  \/ \E formData \in DeleteEntryValues : Financial_handleSubmit(formData)
  \/ \E scoped \in BOOLEAN : entryWriteApplied(scoped)
  \/ \E ok \in BOOLEAN : entrySaveRefetched(ok)
  \/ \E entry \in entries : Financial_handleDeleteClick(entry)
  \/ Financial_handleDeleteConfirm
  \/ \E scoped \in BOOLEAN : entryDeleteApplied(scoped)
  \/ entryDeleteFailed
  \/ entryDeleteThrew
  \/ \E ok \in BOOLEAN : entryDeleteRefetched(ok)
  \/ Financial_handleDeleteCancel

\* the appointments page and the financial page of one user, creating
\* records and deleting them
SpecDelete == Init /\ [][NextDelete]_vars

\* an awaited call settles: the promise of deleteAppointment, of the delete
\* on financial_entries and of the fetchEntriesAndKPIs that follows it is
\* resolved or rejected in the end
DeleteSettles ==
  /\ WF_vars(deleteResolved("tab1") \/ deleteRejected("tab1"))
  /\ WF_vars((\E scoped \in BOOLEAN : entryDeleteApplied(scoped))
               \/ entryDeleteFailed \/ entryDeleteThrew)
  /\ WF_vars(\E ok \in BOOLEAN : entryDeleteRefetched(ok))

\* SpecDelete with every awaited call of a delete settling
SpecDeleteFair == SpecDelete /\ DeleteSettles

\* amounts far above MaxCents: the largest below 2^51 that ends in 99, and
\* 4346094498669502, which is above 2^51
LargeAmounts == { <<9999, 9999, 9999, 224>>, <<9502, 9866, 944, 4346>> }

\* the stored amounts that are opened and saved
StoredAmounts == {FromNat(p) : p \in 0..MaxCents} \cup LargeAmounts

InitMoney ==
  /\ InitPages
  /\ storedAmount \in StoredAmounts
  /\ formAmount = NoValue
  /\ businessHours = <<>>

NextMoney ==
  \/ resetAmount
  \/ saveAmount

\* a stored amount opened for editing and saved without a change
SpecMoney == InitMoney /\ [][NextMoney]_vars

\* the clock times of a business-hours entry
ClockTimes == { <<h, m>> : h \in {8, 9, 18}, m \in {0, 30} }

\* an entry of the list (BusinessHoursSchema; day_of_week is not read): a
\* closed day has neither time, an open day opens before it closes
HoursEntries ==
  { [start_time |-> NoTime, end_time |-> NoTime] }
    \cup { [start_time |-> a, end_time |-> b] :
             <<a, b>> \in { w \in ClockTimes \X ClockTimes : Earlier(w[1], w[2]) } }

RECURSIVE ListsOf(_, _)
ListsOf(S, n) ==
  IF n = 0 THEN { <<>> }
  ELSE ListsOf(S, n - 1)
         \cup { Append(l, e) : l \in { k \in ListsOf(S, n - 1) : Len(k) = n - 1 }, e \in S }

HoursLists == ListsOf(HoursEntries, MaxHours)

NextHours == \E list \in HoursLists : fetchBusinessHours(list)

\* the business hours the store holds, fetched again and again
SpecHours == Init /\ [][NextHours]_vars

\* service ids a candidate can carry: none yet, the services of the
\* catalogue, and an id that resolves to no service
ServiceIds == {0, 2} \cup Ids(catalogue)

\* prices a caller overrides with, in cents
OverridePrices == {3000}

NextDerive ==
  \/ \E id \in ServiceIds : setService(id)
  \/ \E t \in 0..MaxTime : setStart(t)
  \/ \E t \in 1..MaxTime : pinEnd(t)
  \/ \E p \in OverridePrices : overridePrice(p)

\* a candidate being filled in, its defaults derived as it changes
SpecDerive == Init /\ [][NextDerive]_vars

\* ---- vocabulary of the properties ----------------------------------------

Start(a) == DateParse(a.appointment_date)
End(a) == DateParse(a.end_date)

\* half-open intervals [s1,e1) and [s2,e2) intersect
Overlap(a, b) == Start(a) < End(b) /\ Start(b) < End(a)

BackToBack(a, b) == End(a) = Start(b) \/ End(b) = Start(a)

SameProfessional(a, b) == a.professional_id = b.professional_id

\* all three references resolve to a record of the owner
Resolvable(a) ==
  /\ a.client_id \in Ids(clients)
  /\ a.professional_id \in Ids(professionals)
  /\ a.service_id \in Ids(services)

\* a readable start, an end strictly after it, a positive price
WellFormed(data) ==
  /\ data.appointment_date \in 0..MaxTime
  /\ data.end_date \in 0..MaxTime
  /\ data.end_date > data.appointment_date
  /\ data.price > 0

\* the appointments session s validates against: its copy of the table
\* without the appointment being edited
Others(s) == {b \in appointments[s] : b.id # editingAppointment[s].id}

\* the form of session s can be submitted
CanSubmit(s) == FormOnTop(s) /\ pending[s] = NoCall

\* submitting data in session s issues a write
Accepted(s, data) == submit(s, data).calls # <<>>

DoubleBooked(table) ==
  \E a \in table : \E b \in table :
    a.id # b.id /\ SameProfessional(a, b) /\ Overlap(a, b)

\* ---- properties -----------------------------------------------------------

\* C1 (as claimed): a candidate that overlaps an existing appointment of the
\* same professional, other than the one being edited, is rejected: no
\* session ever has a save call in flight for such a candidate.
C1_OverlapRejected ==
  \A s \in Sessions :
    (pending[s] # NoCall /\ Resolvable(pending[s].rec)) =>
      ~ \E b \in appointments[s] :
          /\ b.id # pending[s].rec.id
          /\ SameProfessional(b, pending[s].rec)
          /\ Overlap(pending[s].rec, b)

\* C2 (as claimed): with one session working one operation at a time, the
\* table never holds two distinct appointments of the same professional
\* whose intervals overlap.
C2_NoDoubleBooking == ~DoubleBooked(db)

\* a well-formed candidate is accepted also when it overlaps an appointment
\* of its professional that is in the table but not in the session's copy
C3_StaleValidationOk ==
  \A s \in Sessions :
    CanSubmit(s) =>
      \A data \in ConcurrentValues :
        (\E b \in db \ appointments[s] :
            SameProfessional(b, data) /\ Overlap(data, b))
          => Accepted(s, data)

\* an insert reported as created has stored its record under the next id
C3_CommitStores ==
  \A s \in Sessions :
    (pending[s].op = "add" /\ pending'[s] = NoCall /\ toast'[s] = Created)
      => [pending[s].rec EXCEPT !.id = nextId] \in db'

\* C3: with two sessions, a well-formed candidate is accepted also when it
\* overlaps an appointment of its professional that is in the table but not
\* in the session's stale copy; the accepted insert is then stored as it is,
\* and no step of the two sessions undoes a double booking once it is stored.
C3_StaleCommit ==
  /\ []C3_StaleValidationOk
  /\ [][C3_CommitStores /\ (DoubleBooked(db) => DoubleBooked(db'))]_vars

\* C3 witness: both sessions were told their appointment was created, the
\* two appointments overlap for the same professional, and neither session's
\* copy holds the other's appointment.
C3_DoubleBookingReached ==
  \E a \in db : \E b \in db :
    /\ a.id # b.id /\ SameProfessional(a, b) /\ Overlap(a, b)
    /\ toast["tab1"] = Created /\ toast["tab2"] = Created
    /\ a \in appointments["tab1"] /\ b \notin appointments["tab1"]
    /\ b \in appointments["tab2"] /\ a \notin appointments["tab2"]

\* C4: a well-formed candidate with resolvable references that is back to
\* back with an appointment of its professional, and overlaps none of them,
\* is accepted: submitting it raises no error and issues the write.
C4_BackToBackAccepted ==
  \A s \in Sessions :
    CanSubmit(s) =>
      \A data \in FormValues :
        ( /\ WellFormed(data) /\ Resolvable(data)
          /\ \E b \in Others(s) : SameProfessional(b, data) /\ BackToBack(data, b)
          /\ ~ \E b \in Others(s) : SameProfessional(b, data) /\ Overlap(data, b) )
        => /\ Accepted(s, data)
           /\ submit(s, data).errors = {}
           /\ submit(s, data).toast = NoToast

\* C4 witness: two back-to-back appointments of one professional are stored.
C4_BackToBackStored ==
  \E a \in db : \E b \in db :
    /\ a.id # b.id /\ SameProfessional(a, b)
    /\ End(a) = Start(b)
    /\ Resolvable(a) /\ Resolvable(b)

\* C5: an appointment of another professional never makes a candidate
\* conflict: a well-formed candidate with resolvable references whose only
\* overlapping appointments belong to other professionals is accepted.
C5_OtherProfessionalNoConflict ==
  \A s \in Sessions :
    CanSubmit(s) =>
      \A data \in FormValues :
        ( /\ WellFormed(data) /\ Resolvable(data)
          /\ \E b \in Others(s) : ~SameProfessional(b, data) /\ Overlap(data, b)
          /\ ~ \E b \in Others(s) : SameProfessional(b, data) /\ Overlap(data, b) )
        => /\ Accepted(s, data)
           /\ submit(s, data).errors = {}
           /\ submit(s, data).toast = NoToast

\* C5 witness: two overlapping appointments of different professionals are
\* stored.
C5_OtherProfessionalStored ==
  \E a \in db : \E b \in db :
    /\ ~SameProfessional(a, b) /\ Overlap(a, b)
    /\ Resolvable(a) /\ Resolvable(b)

\* C6: a candidate whose end is not strictly after its start is rejected
\* with an error on end_date and without a write, on create and on edit and
\* whatever it overlaps; so no call in flight and no stored appointment has
\* end <= start, and a step that raised field errors issued no write.
C6_EndNotAfterStartRejected ==
  /\ \A s \in Sessions :
       CanSubmit(s) =>
         \A data \in FormValues :
           ~( /\ data.appointment_date \in 0..MaxTime
              /\ data.end_date \in 0..MaxTime
              /\ data.end_date > data.appointment_date )
           => /\ ~Accepted(s, data)
              /\ "end_date" \in submit(s, data).errors
  /\ \A s \in Sessions :
       /\ pending[s] # NoCall => End(pending[s].rec) > Start(pending[s].rec)
       /\ errors[s] # {} => (issued[s] = 0 /\ pending[s] = NoCall)
  /\ \A a \in db : End(a) > Start(a)

\* C6 witness: an edit was rejected with an error on end_date and no write,
\* while the table holds another appointment.
C6_EditRejected ==
  \E s \in Sessions :
    /\ "end_date" \in errors[s]
    /\ editingAppointment[s] # Null
    /\ issued[s] = 0 /\ pending[s] = NoCall
    /\ \E b \in db : b.id # editingAppointment[s].id

\* C7 (as claimed): while appointment X is edited, a well-formed candidate
\* with resolvable references is accepted iff it overlaps no appointment of
\* its professional other than X; so no update call is in flight for a
\* record that overlaps another appointment of the same professional.
C7_EditExcludesOnlyItself ==
  /\ \A s \in Sessions :
       (CanSubmit(s) /\ editingAppointment[s] # Null) =>
         \A data \in FormValues :
           ( /\ WellFormed(data) /\ Resolvable(data)
             /\ ~ \E b \in Others(s) : SameProfessional(b, data) /\ Overlap(data, b) )
           => Accepted(s, data)
  /\ \A s \in Sessions :
       (pending[s].op = "update" /\ Resolvable(pending[s].rec)) =>
         ~ \E b \in appointments[s] :
             /\ b.id # pending[s].rec.id
             /\ SameProfessional(b, pending[s].rec)
             /\ Overlap(pending[s].rec, b)

\* the record of a call passed the resolver and the client lookup
C8_Validated(rec) ==
  /\ rec.client_id \in Ids(clients)
  /\ rec.professional_id >= 1 /\ rec.service_id >= 1
  /\ rec.appointment_date \in 0..MaxTime /\ rec.end_date \in 0..MaxTime
  /\ rec.end_date > rec.appointment_date

\* a session's last step issued at most one write, and none when it raised
\* an error; a call in flight carries a validated record
C8_State ==
  \A s \in Sessions :
    /\ issued[s] <= 1
    /\ (errors[s] # {} \/ toast[s] = ClientNotFound)
         => (issued[s] = 0 /\ pending[s] = NoCall)
    /\ pending[s] # NoCall => C8_Validated(pending[s].rec)

\* the step that puts a call in flight issues that one write, raises no
\* error and leaves the table alone; the table changes only when a call in
\* flight settles, by exactly the record of that call
C8_Step ==
  /\ \A s \in Sessions :
       (pending[s] = NoCall /\ pending'[s] # NoCall)
         => (issued'[s] = 1 /\ errors'[s] = {} /\ toast'[s] = NoToast /\ db' = db)
  /\ db' # db =>
       \E s \in Sessions :
         \/ /\ pending[s].op = "add" /\ pending'[s] = NoCall
            /\ db' = db \cup {[pending[s].rec EXCEPT !.id = nextId]}
         \/ /\ pending[s].op = "update" /\ pending'[s] = NoCall
            /\ db' = {a \in db : a.id # pending[s].rec.id} \cup {pending[s].rec}
         \/ /\ isDeleting[s] /\ ~isDeleting'[s]
            /\ db' = {a \in db : a.id # appointmentToDelete[s].id}

\* C8: a write is issued only by a submit whose candidate passed validation,
\* and then exactly one; a submit that raised field errors or the missing
\* client error issued none; and the table changes only when a call in
\* flight settles, by exactly the record of that call.
C8_WriteOnlyAfterValidation == []C8_State /\ [][C8_Step]_vars

\* C8 witness: an edit passed validation and its one update call is in
\* flight, the table still unchanged.
C8_OneWriteIssued ==
  \E s \in Sessions :
    /\ pending[s].op = "update" /\ issued[s] = 1
    /\ pending[s].rec \notin db

\* C9 (as claimed): every stored appointment's client, professional and
\* service resolve to records of the owner.
C9_ReferencesResolve == \A a \in db : Resolvable(a)

\* a valid submit with an unknown client_id raises the missing client error
\* and issues nothing; after that error the form is open and nothing is in
\* flight
C10_State ==
  \A s \in Sessions :
    /\ CanSubmit(s) =>
         \A data \in FormValues :
           (AppointmentFormSchema(data) = {} /\ data.client_id \notin Ids(clients))
             => /\ submit(s, data).toast = ClientNotFound
                /\ ~Accepted(s, data)
    /\ toast[s] = ClientNotFound =>
         (isModalOpen[s] /\ pending[s] = NoCall /\ issued[s] = 0)

\* the step that raises the missing client error changes neither the table
\* nor the form's state
C10_Step ==
  \A s \in Sessions :
    toast'[s] = ClientNotFound =>
      /\ db' = db
      /\ isModalOpen'[s] /\ isModalOpen[s]
      /\ editingAppointment'[s] = editingAppointment[s]
      /\ pending'[s] = NoCall

\* C10: a submit whose client_id matches no client raises the missing
\* client error and issues no write; the step that raises it leaves the
\* table, the open form and editingAppointment as they were.
C10_UnknownClientRejected == []C10_State /\ [][C10_Step]_vars

\* C10 witness: an edit was rejected with the missing client error; the form
\* is still open on the appointment being edited.
C10_EditKeptOpen ==
  \E s \in Sessions :
    /\ toast[s] = ClientNotFound
    /\ isModalOpen[s]
    /\ editingAppointment[s] \in db
    /\ pending[s] = NoCall

C12_DeriveIdempotent ==
  \A id \in ServiceIds :
    LET once == deriveDefaults(candidate, resolveService(id)) IN
    deriveDefaults(once, resolveService(id)) = once

\* C12 witness: end and price of the candidate were filled by a derivation,
\* neither pinned nor overridden.
C12_DefaultsFilled ==
  /\ candidate.service_id \in Ids(services)
  /\ ~candidate.end_pinned /\ ~candidate.price_overridden
  /\ candidate.start > 0
  /\ candidate.end = candidate.start + resolveService(candidate.service_id).duration
  /\ candidate.price = resolveService(candidate.service_id).price

\* deriving with no service gives the candidate back, field for field
C13_State == deriveDefaults(candidate, [id |-> 0]) = candidate

\* a step that derives (the service or the start changed) for a candidate
\* whose service resolves to none changes neither end nor price nor what is
\* pinned
C13_Step ==
  ( /\ resolveService(candidate'.service_id) = [id |-> 0]
    /\ \/ candidate'.service_id # candidate.service_id
       \/ candidate'.start # candidate.start )
  => /\ candidate'.end = candidate.end
     /\ candidate'.price = candidate.price
     /\ candidate'.end_pinned = candidate.end_pinned
     /\ candidate'.price_overridden = candidate.price_overridden

\* C13: when the service is absent, deriveDefaults returns the candidate as
\* it was: end, price and every other field keep their values.
C13_AbsentServiceLeavesCandidate == []C13_State /\ [][C13_Step]_vars

\* C13 witness: the candidate names a service that resolves to none and
\* still carries the end and price derived before, not pinned.
C13_KeptWithoutService ==
  /\ candidate.service_id = 2
  /\ candidate.end # Absent /\ candidate.price # Absent
  /\ ~candidate.end_pinned /\ ~candidate.price_overridden

\* C14: validating a candidate changes nothing it reads: the step in which a
\* session's submit is validated, whether it ends in field errors, in the
\* missing client error or in the save call being issued, leaves the table,
\* every session's list of existing appointments, the appointment being
\* edited and the open form as they were, so validating the same candidate
\* again gives the same result.
C14_ValidatePure ==
  [][ \A s \in Sessions :
        ( /\ pending[s] = NoCall
          /\ \/ errors'[s] # {}
             \/ toast'[s] = ClientNotFound
             \/ pending'[s] # NoCall )
        => /\ db' = db /\ nextId' = nextId
           /\ appointments' = appointments
           /\ editingAppointment' = editingAppointment
           /\ isModalOpen' = isModalOpen ]_vars

\* C14 witness: a create was validated Ok against a list that holds an
\* appointment; the call is in flight and list and table are as before.
C14_ValidatedAgainstExisting ==
  \E s \in Sessions :
    /\ pending[s].op = "add" /\ issued[s] = 1
    /\ appointments[s] # {} /\ appointments[s] = db
    /\ pending[s].rec \notin appointments[s]

\* a record has two readable dates, the end strictly after the start
C16_Interval(rec) ==
  /\ ~isNaN(Start(rec)) /\ ~isNaN(End(rec))
  /\ End(rec) > Start(rec)

\* every record handed to the store, held by the table or held by a
\* session's list is such an interval
C16_State ==
  /\ \A a \in db : C16_Interval(a)
  /\ \A s \in Sessions :
       /\ pending[s] # NoCall => C16_Interval(pending[s].rec)
       /\ \A a \in appointments[s] : C16_Interval(a)

\* a record that enters the table, by create or by update, is such an
\* interval
C16_Step == \A a \in db' \ db : C16_Interval(a)

C20_NameOfClient(rec) ==
  \E c \in clients : c.id = rec.client_id /\ c.name = rec.client_name

\* every record handed to the store and every stored record carries the
\* name of its client
C20_State ==
  /\ \A a \in db : C20_NameOfClient(a)
  /\ \A s \in Sessions : pending[s] # NoCall => C20_NameOfClient(pending[s].rec)

\* a record that enters the table, by create or by update, carries the name
\* that its client has when it is written
C20_Step == \A a \in db' \ db : C20_NameOfClient(a)

\* C20: after every create or update the stored client_name is the name of
\* the client identified by the stored client_id; an edit that changes
\* client_id replaces client_name with it.
C20_ClientNameInSync == []C20_State /\ [][C20_Step]_vars

\* C20 witness: an appointment stored for client 1 is being moved to client
\* 2: the update call in flight carries client 2 and the name of client 2.
C20_ClientChanged ==
  \E s \in Sessions :
    /\ pending[s].op = "update"
    /\ editingAppointment[s] \in db
    /\ editingAppointment[s].client_id = 1
    /\ editingAppointment[s].client_name = "Ana"
    /\ pending[s].rec.client_id = 2
    /\ pending[s].rec.client_name = "Bruno"

\* the save of the entry form, respectively the delete, settles in this step
C18_SaveSettles ==
  entrySave # NoCall /\ entrySave.stage = "write" /\ entrySave' # entrySave

C18_DeleteSettles ==
  entryDelete # NoCall /\ entryDelete.stage = "write" /\ entryDelete' # entryDelete

\* the row with this id belongs to another user than the one who issued the
\* write
C18_Foreign(call) ==
  \E r \in financial_entries : r.id = call.id /\ r.user_id # call.user_id

\* C18 (as claimed): an update or delete the page issues affects only rows
\* whose owner is the user signed in when it was issued; when the id it
\* targets belongs to another user, the table is left as it was and the
\* outcome is not reported as a success.
C18_WritesOwnerScoped ==
  [][ /\ (C18_SaveSettles /\ entrySave.op = "update") =>
           /\ \A r \in financial_entries \ financial_entries' :
                 r.user_id = entrySave.user_id
           /\ C18_Foreign(entrySave) =>
                 /\ financial_entries' = financial_entries
                 /\ entryToast' # "Entrada atualizada!"
      /\ C18_DeleteSettles =>
           /\ \A r \in financial_entries \ financial_entries' :
                 r.user_id = entryDelete.user_id
           /\ C18_Foreign(entryDelete) =>
                 /\ financial_entries' = financial_entries
                 /\ entryToast' # "Entrada removida!" ]_vars

\* C19 (as claimed): a save or delete that fails is surfaced as an error
\* notification with the form or the confirmation left as it is, and a success
\* notification is raised only when the write is in the table: for the
\* financial entries, and for the appointments.
C19_FailureSurfaced ==
  [][ /\ (C18_SaveSettles /\ entrySave.op = "insert") =>
           /\ entryToast' = "Entrada adicionada!" =>
                 \E r \in financial_entries' \ financial_entries :
                   r.amount = entrySave.data.amount
           /\ financial_entries' = financial_entries =>
                 (entryToast' = "Erro ao salvar." /\ isEntryModalOpen' = isEntryModalOpen)
      /\ (C18_SaveSettles /\ entrySave.op = "update") =>
           (entryToast' = "Entrada atualizada!" =>
              \E r \in financial_entries' :
                r.id = entrySave.id /\ r.amount = entrySave.data.amount)
      /\ C18_DeleteSettles =>
           /\ entryToast' = "Entrada removida!" =>
                 ~ \E r \in financial_entries' : r.id = entryDelete.id
           /\ (\E r \in financial_entries' : r.id = entryDelete.id) =>
                 (entryToast' = "Erro ao remover entrada." /\ isEntryConfirmOpen')
      /\ \A s \in Sessions :
           (pending[s] # NoCall /\ pending'[s] = NoCall) =>
             /\ toast'[s] \in {Created, "Agendamento atualizado!"} =>
                   \E a \in db' : [a EXCEPT !.id = 0] = [pending[s].rec EXCEPT !.id = 0]
             /\ (pending[s].op = "add" /\ db' = db) =>
                   (toast'[s] = "Nao foi possivel salvar" /\ isModalOpen'[s] = isModalOpen[s]) ]_vars

\* every stored appointment has an id the table handed out, and the id
\* identifies it
C21_State ==
  /\ \A a \in db : a.id \in 1..(nextId - 1)
  /\ \A a \in db : \A b \in db : a.id = b.id => a = b
  /\ \A s \in Sessions : pending[s].op = "add" => pending[s].rec.id = 0

\* a create that settles adds one record, under an id no stored appointment
\* has
C21_Step ==
  \A s \in Sessions :
    (pending[s].op = "add" /\ pending'[s] = NoCall /\ toast'[s] = Created) =>
      \E a \in db' :
        /\ a.id \notin Ids(db)
        /\ db' = db \cup {a}
        /\ a = [pending[s].rec EXCEPT !.id = a.id]

\* C21: after any sequence of creates, updates and deletes every stored
\* appointment has an id, no two stored appointments share an id, and a
\* create stores its record under an id no stored appointment has.
C21_CommitAssignsNewId == []C21_State /\ [][C21_Step]_vars

\* C21 witness: an appointment was created after the first one was deleted;
\* it is stored under the second id.
C21_CreatedAfterDelete ==
  \E s \in Sessions : toast[s] = Created /\ Ids(db) = {2}

\* C22: a confirmed delete that succeeds removes the appointment with the id
\* of the selected one and leaves every other stored appointment as it was;
\* a delete that fails, and one cancelled in the confirmation dialog, leave
\* the table as it was.
C22_CancelRemovesExactlyOne ==
  [][ \A s \in Sessions :
        /\ (isDeleting[s] /\ ~isDeleting'[s]) =>
              IF toast'[s] = "Agendamento removido!"
                THEN /\ ~Exists(db', appointmentToDelete[s].id)
                     /\ db' = {a \in db : a.id # appointmentToDelete[s].id}
                     /\ Cardinality(db') = Cardinality(db) - 1
                ELSE /\ toast'[s] = "Falha ao remover agendamento."
                     /\ db' = db
        /\ (isConfirmModalOpen[s] /\ ~isConfirmModalOpen'[s] /\ ~isDeleting[s])
              => db' = db ]_vars

\* C22 witness: a confirmed delete succeeded while another appointment was
\* stored, and that one is still there.
C22_OtherKept ==
  \E s \in Sessions :
    /\ toast[s] = "Agendamento removido!"
    /\ Cardinality(db) = 1
    /\ nextId = 3

\* C23 (as claimed): whenever the form is open on an appointment being
\* edited, that appointment is in the table, and no update call is in flight
\* for an appointment that is no longer stored.
C23_EditedStillExists ==
  \A s \in Sessions :
    /\ (isModalOpen[s] /\ editingAppointment[s] # Null)
          => Exists(db, editingAppointment[s].id)
    /\ pending[s].op = "update" => Exists(db, pending[s].rec.id)

\* while the form is closed no appointment is being edited
C24_State ==
  \A s \in Sessions : ~isModalOpen[s] => editingAppointment[s] = Null

\* the form opens on an appointment only when that appointment is an event
\* of the calendar, and keeps it while open; a submit issues an update of
\* that appointment iff there is one, an insert otherwise; an insert that
\* succeeds adds a record and overwrites none
C24_Step ==
  \A s \in Sessions :
    /\ (~isModalOpen[s] /\ isModalOpen'[s]) =>
          (editingAppointment'[s] = Null \/ editingAppointment'[s] \in appointments[s])
    /\ (isModalOpen[s] /\ isModalOpen'[s]) =>
          editingAppointment'[s] = editingAppointment[s]
    /\ (pending[s] = NoCall /\ pending'[s] # NoCall) =>
          IF editingAppointment[s] # Null
            THEN /\ pending'[s].op = "update"
                 /\ pending'[s].rec.id = editingAppointment[s].id
            ELSE /\ pending'[s].op = "add"
                 /\ pending'[s].rec.id = 0
    /\ (pending[s].op = "add" /\ pending'[s] = NoCall /\ toast'[s] = Created) =>
          /\ db \subseteq db'
          /\ Cardinality(db') = Cardinality(db) + 1

\* C24: a submit issues an update iff the form was opened on an existing
\* calendar event, and an insert otherwise; after the form was opened through
\* an empty slot or the new-appointment button, and after every close,
\* editingAppointment is null, and the next successful submit adds an
\* appointment instead of overwriting one.
C24_UpdateIffOpenedOnEvent == []C24_State /\ [][C24_Step]_vars

\* C24 witness: a create went through while an appointment was stored; both
\* are in the table.
C24_CreatedBesideExisting ==
  \E s \in Sessions :
    /\ toast[s] = Created
    /\ Cardinality(db) = 2
    /\ editingAppointment[s] = Null

\* C25: on the appointments page and on the financial page, the delete
\* confirmation dialog is open exactly when a record to delete is selected,
\* across click, confirm with success, confirm with failure and cancel.
C25_DialogIffSelected ==
  /\ \A s \in Sessions : isConfirmModalOpen[s] <=> appointmentToDelete[s] # Null
  /\ isEntryConfirmOpen <=> entryToDelete # Null

\* C25 witness: on both pages a confirmed delete has failed; the dialog is
\* open and the record still selected.
C25_BothFailedOpen ==
  /\ toast["tab1"] = "Falha ao remover agendamento."
  /\ isConfirmModalOpen["tab1"] /\ appointmentToDelete["tab1"] \in db
  /\ entryToast = "Erro ao remover entrada."
  /\ isEntryConfirmOpen /\ entryToDelete \in financial_entries

\* a delete in progress is over in the end, on both pages
C26_Live ==
  /\ \A s \in Sessions : isDeleting[s] ~> ~isDeleting[s]
  /\ isDeletingEntry ~> ~isDeletingEntry

\* the step in which the delete of an appointment settles clears isDeleting;
\* when a delete has settled and its record is still in the table, the
\* record is still selected and the dialog still open
C26_Step ==
  /\ \A s \in Sessions :
       /\ ( /\ isDeleting[s]
             /\ toast'[s] \in {"Agendamento removido!", "Falha ao remover agendamento."} )
             => ~isDeleting'[s]
       /\ (isDeleting[s] /\ ~isDeleting'[s] /\ Exists(db', appointmentToDelete[s].id))
             => /\ isConfirmModalOpen'[s]
                /\ appointmentToDelete'[s] = appointmentToDelete[s]
  /\ (C18_DeleteSettles /\ \E r \in financial_entries' : r.id = entryDelete.id)
       => /\ isEntryConfirmOpen'
          /\ entryToDelete' = entryToDelete

\* C26 (as claimed): on both pages, once handleDeleteConfirm has set
\* isDeleting it becomes false again after the delete call has settled,
\* whether it succeeded or failed, and after a failure the selected record
\* and the open confirmation dialog are kept.
C26_DeleteClearsFlag == C26_Live /\ [][C26_Step]_vars

C28_Saved == formAmount # NoValue /\ formAmount' = NoValue

\* C28 (as claimed): for every stored amount p in cents, opening the record
\* and saving it without a change stores p again:
\* Math.round((p / 100) * 100) = p.
C28_RoundTrip == [][ C28_Saved => storedAmount' = storedAmount ]_vars

\* C28: for every stored amount p in cents below 2^51, opening the record
\* and saving it without a change stores p again.
C28_RoundTripBelow ==
  [][ (C28_Saved /\ Less(storedAmount, TwoTo51))
        => storedAmount' = storedAmount ]_vars

\* C28 witness: the record of 29 cents was opened, the form held the double
\* nearest to 0.29, and the save has stored 29 cents again.
C28_Resaved29 ==
  /\ entryToast = "Entrada atualizada!"
  /\ formAmount = NoValue
  /\ storedAmount = FromNat(29)
  /\ MathFloor(Multiply(Divide(storedAmount, 100), 100)) = FromNat(28)

\* C29: the visible day window of the calendar is well formed for every
\* business-hours list: minTime is before maxTime, also when the list is
\* empty and when every entry has null start_time and end_time.
C29_WindowWellFormed == minTime < maxTime

====
